---- MODULE Spec2Model ----
(***************************************************************************)
(* Model of the lifecycle manager GraphitiGeminiManager (src/app/utils.py) *)
(* as it runs on one asyncio event loop: every action is the code that     *)
(* runs between two suspension points (an await that reaches the network   *)
(* or the retry sleep) of one caller.                                      *)
(***************************************************************************)
EXTENDS Integers, Sequences, FiniteSets, TLC

\* ---- bounds of the model ----
NumCallers == 2
MaxCalls == 3
MaxResults == 2
MaxConfigRetries == 4

\* ---- program constants ----
MaxAttempts == 3
WaitMultiplier == 1
WaitMin == 4
WaitMax == 10

Callers == 1..NumCallers

\* self._graphiti is None
None == 0
\* results a finished call hands to its caller (handles are 1, 2, ...)
Error == -1
NoResult == -2
Report == -3
Responded == -4

Ops == {"init", "get", "health"}
\* the endpoints that forward a request to the engine
FacadeOps == {"episode", "search"}

\* request fields the model draws from
Texts == {"a", "b"}
Limits == {1, 100}
\* what a search of the engine returns: for each result, whether it has to_dict
ResultLists == UNION {[1..n -> BOOLEAN] : n \in 0..MaxResults}

VARIABLES
  graphiti,   \* self._graphiti: None or the handle stored
  engine,     \* the engine's record: one entry per Graphiti(...) call, in order
  pc,         \* where each caller is suspended
  op,         \* the manager operation each caller is running
  attempt,    \* tenacity's attempt_number of the caller's initialize_graphiti call
  target,     \* the handle whose build_indices() the caller awaits
  ret,        \* what the caller's last finished call returned
  health,     \* health_status of the caller's health_check
  probe,      \* what the two probes of the caller's health_check met
  calls,      \* number of operations started so far
  sawNull,    \* whether self._graphiti was None when the caller's call was made
  waits,      \* the backoff waits of the caller's initialize_graphiti call, in order
  req,        \* the caller's request, the engine calls made for it and their outcome
  resp,       \* the HTTP response of the caller's endpoint
  settings    \* the configuration loaded at startup (app.config.settings)

vars == <<graphiti, engine, pc, op, attempt, target, ret, health, probe, calls, sawNull, waits, req, resp,
          settings>>

UnknownStatus == [graphiti |-> "unknown", neo4j |-> "unknown", gemini |-> "unknown"]
NoProbe == [model |-> "none", engine |-> "none"]
NoRequest == [text |-> "", limit |-> 0, center |-> FALSE, sent |-> 0, out |-> "none", results |-> <<>>]
NoResponse == [code |-> 0]
\* HTTPException(status_code=500, ...)
ServerError == [code |-> 500]

\* initialize_graphiti without its early return on an installed handle
initialize_graphiti_nocheck(g, eng, ctorOk) ==
  IF ctorOk
  THEN [graphiti |-> Len(eng) + 1, engine |-> Append(eng, "pending"), res |-> "await_build"]
  ELSE [graphiti |-> g, engine |-> Append(eng, "ctor_fail"), res |-> "raise"]

\* ---- the body of initialize_graphiti, one attempt up to its first await ----
\* ctorOk: whether Graphiti(...) returns (TRUE) or throws (FALSE)
initialize_graphiti(g, eng, ctorOk) ==
  IF g # None
  THEN [graphiti |-> g, engine |-> eng, res |-> "return"]
  ELSE IF ctorOk
       THEN [graphiti |-> Len(eng) + 1, engine |-> Append(eng, "pending"), res |-> "await_build"]
       ELSE [graphiti |-> g, engine |-> Append(eng, "ctor_fail"), res |-> "raise"]

Min(a, b) == IF a < b THEN a ELSE b
Max(a, b) == IF a > b THEN a ELSE b

RECURSIVE Pow2(_)
Pow2(n) == IF n = 0 THEN 1 ELSE 2 * Pow2(n - 1)

\* a backoff without the lower bound min=4
wait_exponential_nomin(a) == Min(WaitMultiplier * Pow2(a - 1), WaitMax)

\* tenacity: wait=wait_exponential(multiplier=1, min=4, max=10), the wait after
\* attempt number a
wait_exponential(a) == Max(Max(0, WaitMin), Min(WaitMultiplier * Pow2(a - 1), WaitMax))

\* a stop condition that allows one attempt too many
stop_after_attempt_late(a) == a > MaxAttempts

\* tenacity: stop=stop_after_attempt(3)
stop_after_attempt(a) == a >= MaxAttempts

\* ---- health_check's classification of its probes ----
gemini_status(out) == IF out = "response" THEN "healthy" ELSE "unhealthy"

\* health_check with one try block around both probes: a throwing model probe
\* leaves health_check
after_model_probe_propagate(out) == IF out = "throw" THEN "propagate" ELSE "engine_probe"

\* the first try/except of health_check: what runs after the model probe
after_model_probe(out) == "engine_probe"

\* the second except branch only logs
engine_probe_status_logonly(h, ok) ==
  IF ok
  THEN [h EXCEPT !.graphiti = "healthy", !.neo4j = "healthy"]
  ELSE h

\* the second try/except sets the engine entry only
engine_probe_status_engineonly(h, ok) ==
  IF ok
  THEN [h EXCEPT !.graphiti = "healthy"]
  ELSE [h EXCEPT !.graphiti = "unhealthy", !.neo4j = "unhealthy"]

\* the second try/except of health_check
engine_probe_status(h, ok) ==
  IF ok
  THEN [h EXCEPT !.graphiti = "healthy", !.neo4j = "healthy"]
  ELSE [h EXCEPT !.graphiti = "unhealthy", !.neo4j = "unhealthy"]

\* ---- the endpoints of main.py ----
\* a verdict that is healthy as soon as one entry is
overall_status_any(services) ==
  IF \E k \in DOMAIN services : services[k] = "healthy" THEN "healthy" ELSE "unhealthy"

\* GET /health: the aggregate verdict
overall_status(services) ==
  IF \A k \in DOMAIN services : services[k] = "healthy" THEN "healthy" ELSE "unhealthy"

health_response(services) ==
  [code |-> 200, status |-> overall_status(services), services |-> services, version |-> "1.0.0"]

\* an episode response that echoes the message instead of the name
episode_response_message(name) ==
  [code |-> 200, success |-> TRUE, message |-> "Episode added successfully",
   episode_name |-> "Episode added successfully"]

\* POST /episodes: the response after add_episode returned
episode_response(name) ==
  [code |-> 200, success |-> TRUE, message |-> "Episode added successfully", episode_name |-> name]

\* POST /search: result.to_dict() gives a dict, str(result) a string
serialize(rs) == [i \in DOMAIN rs |-> IF rs[i] THEN "dict" ELSE "str"]

\* SearchResponse.results is List[Dict[str, Any]]: a string entry fails validation
valid_results(sr) == \A i \in DOMAIN sr : sr[i] = "dict"

\* POST /search: the response after search returned rs, for query q
search_response(rs, q) ==
  IF valid_results(serialize(rs))
  THEN [code |-> 200, results |-> serialize(rs), total_count |-> Len(rs), query |-> q]
  ELSE ServerError

\* the endpoint's response once the manager call of caller c has brought it to
\* position p with result r and report h
Respond(c, p, r, h) ==
  IF p # "done" THEN resp[c]
  ELSE IF op[c] = "health" THEN (IF r = Report THEN health_response(h) ELSE ServerError)
  ELSE IF op[c] \in FacadeOps THEN ServerError
  ELSE resp[c]

\* Settings with its defaults
DefaultSettings == [max_retries |-> 3]

\* GraphitiGeminiManager(settings): the manager after construction
InitManager ==
  /\ graphiti = None
  /\ engine = <<>>
  /\ pc = [c \in Callers |-> "idle"]
  /\ op = [c \in Callers |-> "none"]
  /\ attempt = [c \in Callers |-> 0]
  /\ target = [c \in Callers |-> None]
  /\ ret = [c \in Callers |-> NoResult]
  /\ health = [c \in Callers |-> UnknownStatus]
  /\ probe = [c \in Callers |-> NoProbe]
  /\ calls = 0
  /\ sawNull = [c \in Callers |-> FALSE]
  /\ waits = [c \in Callers |-> <<>>]
  /\ req = [c \in Callers |-> NoRequest]
  /\ resp = [c \in Callers |-> NoResponse]

Init == InitManager /\ settings = DefaultSettings

\* any configured retry count
ConfigInit == InitManager /\ settings \in [max_retries : 1..MaxConfigRetries]

SetCaller(c, p, r, h, pr) ==
  /\ pc' = [pc EXCEPT ![c] = p]
  /\ ret' = [ret EXCEPT ![c] = r]
  /\ health' = [health EXCEPT ![c] = h]
  /\ probe' = [probe EXCEPT ![c] = pr]
  /\ resp' = [resp EXCEPT ![c] = Respond(c, p, r, h)]
  /\ UNCHANGED settings

\* initialize_graphiti handed the handle hd back to the operation of caller c,
\* whose locals are h (health_status) and pr
Returned(c, hd, h, pr) ==
  /\ CASE op[c] = "health" -> SetCaller(c, "search", NoResult, h, pr) /\ UNCHANGED req
       [] op[c] \in FacadeOps ->
            /\ SetCaller(c, "request", NoResult, h, pr)
            /\ req' = [req EXCEPT ![c].sent = @ + 1]
       [] OTHER -> SetCaller(c, "done", hd, h, pr) /\ UNCHANGED req
  /\ UNCHANGED waits

\* attempt number a of caller c raised: tenacity sleeps or gives up
Raised(c, a, h, pr) ==
  IF stop_after_attempt(a)
  THEN /\ IF op[c] = "health"
          THEN SetCaller(c, "done", Report, engine_probe_status(h, FALSE),
                         [pr EXCEPT !.engine = "init_error"])
          ELSE SetCaller(c, "done", Error, h, pr)
       /\ UNCHANGED <<waits, req>>
  ELSE /\ SetCaller(c, "sleep", NoResult, h, pr)
       /\ waits' = [waits EXCEPT ![c] = Append(@, wait_exponential(a))]
       /\ UNCHANGED req

\* an attempt whose null check was taken when the call was made, before the
\* caller was scheduled
RunAttemptStaleCheck(c, a, ctorOk, h, pr) ==
  LET b == initialize_graphiti(IF sawNull[c] THEN None ELSE graphiti, engine, ctorOk) IN
  /\ graphiti' = b.graphiti
  /\ engine' = b.engine
  /\ attempt' = [attempt EXCEPT ![c] = a]
  /\ target' = [target EXCEPT ![c] = IF b.res = "await_build" THEN b.graphiti ELSE None]
  /\ CASE b.res = "await_build" -> SetCaller(c, "build", NoResult, h, pr) /\ UNCHANGED <<waits, req>>
       [] b.res = "return" -> Returned(c, b.graphiti, h, pr)
       [] b.res = "raise" -> Raised(c, a, h, pr)

\* attempt number a of caller c, from the null check to the first suspension
RunAttempt(c, a, ctorOk, h, pr) ==
  LET b == initialize_graphiti(graphiti, engine, ctorOk) IN
  /\ graphiti' = b.graphiti
  /\ engine' = b.engine
  /\ attempt' = [attempt EXCEPT ![c] = a]
  /\ target' = [target EXCEPT ![c] = IF b.res = "await_build" THEN b.graphiti ELSE None]
  /\ CASE b.res = "await_build" -> SetCaller(c, "build", NoResult, h, pr) /\ UNCHANGED <<waits, req>>
       [] b.res = "return" -> Returned(c, b.graphiti, h, pr)
       [] b.res = "raise" -> Raised(c, a, h, pr)

\* get_graphiti up to its first suspension
get_graphiti(c, ctorOk, h, pr) ==
  IF graphiti = None
  THEN RunAttempt(c, 1, ctorOk, h, pr)
  ELSE /\ Returned(c, graphiti, h, pr)
       /\ UNCHANGED <<graphiti, engine, attempt, target>>

\* a request or the startup hook schedules operation o for caller c
Call(c, o) ==
  /\ pc[c] \in {"idle", "done"}
  /\ calls < MaxCalls
  /\ pc' = [pc EXCEPT ![c] = "start"]
  /\ op' = [op EXCEPT ![c] = o]
  /\ calls' = calls + 1
  /\ sawNull' = [sawNull EXCEPT ![c] = (graphiti = None)]
  /\ attempt' = [attempt EXCEPT ![c] = 0]
  /\ ret' = [ret EXCEPT ![c] = NoResult]
  /\ health' = [health EXCEPT ![c] = UnknownStatus]
  /\ probe' = [probe EXCEPT ![c] = NoProbe]
  /\ waits' = [waits EXCEPT ![c] = <<>>]
  /\ req' = [req EXCEPT ![c] = NoRequest]
  /\ resp' = [resp EXCEPT ![c] = NoResponse]
  /\ UNCHANGED <<graphiti, engine, target, settings>>

\* initialize_graphiti() starts running: first attempt
InitEnter(c, ctorOk) ==
  /\ pc[c] = "start" /\ op[c] = "init"
  /\ RunAttempt(c, 1, ctorOk, health[c], probe[c])
  /\ UNCHANGED <<op, calls, sawNull>>

\* get_graphiti() starts running
GetEnter(c, ctorOk) ==
  /\ pc[c] = "start" /\ op[c] = "get"
  /\ get_graphiti(c, ctorOk, health[c], probe[c])
  /\ UNCHANGED <<op, calls, sawNull>>

\* await self._graphiti.build_indices() comes back
BuildReturn(c, ok) ==
  /\ pc[c] = "build"
  /\ engine' = [engine EXCEPT ![target[c]] = IF ok THEN "ok" ELSE "build_fail"]
  /\ target' = [target EXCEPT ![c] = None]
  /\ IF ok THEN Returned(c, graphiti, health[c], probe[c])
           ELSE Raised(c, attempt[c], health[c], probe[c])
  /\ UNCHANGED <<graphiti, attempt, op, calls, sawNull>>

\* the backoff sleep of tenacity ends: next attempt
Wake(c, ctorOk) ==
  /\ pc[c] = "sleep"
  /\ RunAttempt(c, attempt[c] + 1, ctorOk, health[c], probe[c])
  /\ UNCHANGED <<op, calls, sawNull>>

\* health_check() starts running: await model.generate_content_async("Hello")
HealthEnter(c) ==
  /\ pc[c] = "start" /\ op[c] = "health"
  /\ pc' = [pc EXCEPT ![c] = "model"]
  /\ UNCHANGED <<graphiti, engine, op, attempt, target, ret, health, probe, calls, sawNull, waits, req, resp, settings>>

\* the model probe comes back (out: it threw, gave an empty or a real response);
\* the engine probe then runs up to its first suspension
ModelProbeReturn(c, out, ctorOk) ==
  /\ pc[c] = "model"
  /\ IF after_model_probe(out) = "engine_probe"
     THEN get_graphiti(c, ctorOk, [health[c] EXCEPT !.gemini = gemini_status(out)],
                       [probe[c] EXCEPT !.model = out])
     ELSE /\ SetCaller(c, "done", Error, health[c], [probe[c] EXCEPT !.model = out])
          /\ UNCHANGED <<graphiti, engine, attempt, target, waits, req>>
  /\ UNCHANGED <<op, calls, sawNull>>

\* await graphiti.search("health_check", limit=1) comes back
SearchReturn(c, ok) ==
  /\ pc[c] = "search"
  /\ SetCaller(c, "done", Report, engine_probe_status(health[c], ok),
               [probe[c] EXCEPT !.engine = IF ok THEN "ok" ELSE "search_error"])
  /\ UNCHANGED <<graphiti, engine, op, attempt, target, calls, sawNull, waits, req>>

ModelOutcomes == {"throw", "empty", "response"}

\* POST /episodes or POST /search arrives for caller c
Receive(c, o, text, limit, center) ==
  /\ pc[c] \in {"idle", "done"}
  /\ calls < MaxCalls
  /\ pc' = [pc EXCEPT ![c] = "start"]
  /\ op' = [op EXCEPT ![c] = o]
  /\ calls' = calls + 1
  /\ sawNull' = [sawNull EXCEPT ![c] = (graphiti = None)]
  /\ attempt' = [attempt EXCEPT ![c] = 0]
  /\ ret' = [ret EXCEPT ![c] = NoResult]
  /\ health' = [health EXCEPT ![c] = UnknownStatus]
  /\ probe' = [probe EXCEPT ![c] = NoProbe]
  /\ waits' = [waits EXCEPT ![c] = <<>>]
  /\ req' = [req EXCEPT ![c] = [NoRequest EXCEPT !.text = text,
                                 !.limit = IF o = "search" THEN limit ELSE 0,
                                 !.center = (o = "search" /\ center)]]
  /\ resp' = [resp EXCEPT ![c] = NoResponse]
  /\ UNCHANGED <<graphiti, engine, target, settings>>

\* add_episode / search_graph start running: manager.get_graphiti()
FacadeEnter(c, ctorOk) ==
  /\ pc[c] = "start" /\ op[c] \in FacadeOps
  /\ get_graphiti(c, ctorOk, health[c], probe[c])
  /\ UNCHANGED <<op, calls, sawNull>>

\* a facade that calls the engine again when the call failed
RequestReturnRetry(c, ok, rs) ==
  /\ pc[c] = "request"
  /\ IF ok
     THEN /\ pc' = [pc EXCEPT ![c] = "done"]
          /\ ret' = [ret EXCEPT ![c] = Responded]
          /\ req' = [req EXCEPT ![c].out = "ok",
                                ![c].results = IF op[c] = "search" THEN rs ELSE <<>>]
          /\ resp' = [resp EXCEPT ![c] = IF op[c] = "search"
                                          THEN search_response(rs, req[c].text)
                                          ELSE episode_response(req[c].text)]
     ELSE /\ pc' = [pc EXCEPT ![c] = IF req[c].sent < MaxAttempts THEN "request" ELSE "done"]
          /\ ret' = [ret EXCEPT ![c] = IF req[c].sent < MaxAttempts THEN NoResult ELSE Responded]
          /\ req' = [req EXCEPT ![c].out = "fail",
                                ![c].sent = IF @ < MaxAttempts THEN @ + 1 ELSE @]
          /\ resp' = [resp EXCEPT ![c] = IF req[c].sent < MaxAttempts THEN @ ELSE ServerError]
  /\ UNCHANGED <<graphiti, engine, op, attempt, target, health, probe, calls, sawNull, waits, settings>>

\* await graphiti.add_episode(...) / await graphiti.search(...) comes back:
\* ok with the results rs, or with an exception
RequestReturn(c, ok, rs) ==
  /\ pc[c] = "request"
  /\ pc' = [pc EXCEPT ![c] = "done"]
  /\ ret' = [ret EXCEPT ![c] = Responded]
  /\ req' = [req EXCEPT ![c].out = IF ok THEN "ok" ELSE "fail",
                        ![c].results = IF ok /\ op[c] = "search" THEN rs ELSE <<>>]
  /\ resp' = [resp EXCEPT ![c] = IF ~ok THEN ServerError
                                  ELSE IF op[c] = "search"
                                       THEN search_response(rs, req[c].text)
                                       ELSE episode_response(req[c].text)]
  /\ UNCHANGED <<graphiti, engine, op, attempt, target, health, probe, calls, sawNull, waits, settings>>

Next ==
  \/ \E c \in Callers, o \in Ops : Call(c, o)
  \/ \E c \in Callers, ctorOk \in BOOLEAN : InitEnter(c, ctorOk)
  \/ \E c \in Callers, ctorOk \in BOOLEAN : GetEnter(c, ctorOk)
  \/ \E c \in Callers, ok \in BOOLEAN : BuildReturn(c, ok)
  \/ \E c \in Callers, ctorOk \in BOOLEAN : Wake(c, ctorOk)
  \/ \E c \in Callers : HealthEnter(c)
  \/ \E c \in Callers, out \in ModelOutcomes, ctorOk \in BOOLEAN : ModelProbeReturn(c, out, ctorOk)
  \/ \E c \in Callers, ok \in BOOLEAN : SearchReturn(c, ok)

\* the manager's operations, called by any callers at any time
Spec == Init /\ [][Next]_vars

\* ---- the application as main.py wires it ----
\* lifespan: the startup hook calls initialize_graphiti() before anything else
Startup == calls = 0 /\ Call(1, "init")

\* the application serves requests once the startup call has returned a handle
Serving == calls >= 2 \/ (calls = 1 /\ pc[1] = "done" /\ ret[1] >= 1)

AppNext ==
  \/ Startup
  \/ \E c \in Callers, ctorOk \in BOOLEAN : InitEnter(c, ctorOk)
  \/ \E c \in Callers, ok \in BOOLEAN : BuildReturn(c, ok)
  \/ \E c \in Callers, ctorOk \in BOOLEAN : Wake(c, ctorOk)
  \/ Serving /\ \E c \in Callers, o \in {"get", "health"} : Call(c, o)
  \/ Serving /\ \E c \in Callers, text \in Texts : Receive(c, "episode", text, 0, FALSE)
  \/ Serving /\ \E c \in Callers, text \in Texts, limit \in Limits, center \in BOOLEAN :
       Receive(c, "search", text, limit, center)
  \/ \E c \in Callers, ctorOk \in BOOLEAN : GetEnter(c, ctorOk)
  \/ \E c \in Callers : HealthEnter(c)
  \/ \E c \in Callers, out \in ModelOutcomes, ctorOk \in BOOLEAN : ModelProbeReturn(c, out, ctorOk)
  \/ \E c \in Callers, ok \in BOOLEAN : SearchReturn(c, ok)
  \/ \E c \in Callers, ctorOk \in BOOLEAN : FacadeEnter(c, ctorOk)
  \/ \E c \in Callers, ok \in BOOLEAN, rs \in ResultLists : RequestReturn(c, ok, rs)

AppSpec == Init /\ [][AppNext]_vars

\* the event loop runs every scheduled call, and every build_indices() call
\* and backoff sleep eventually comes back
Fairness ==
  \A c \in Callers :
    /\ WF_vars(\E ctorOk \in BOOLEAN : InitEnter(c, ctorOk))
    /\ WF_vars(\E ctorOk \in BOOLEAN : GetEnter(c, ctorOk))
    /\ WF_vars(\E ok \in BOOLEAN : BuildReturn(c, ok))
    /\ WF_vars(\E ctorOk \in BOOLEAN : Wake(c, ctorOk))

\* initialize_graphiti() and get_graphiti() called by any callers at any time
HandleNext ==
  \/ \E c \in Callers, o \in {"init", "get"} : Call(c, o)
  \/ \E c \in Callers, ctorOk \in BOOLEAN : InitEnter(c, ctorOk)
  \/ \E c \in Callers, ctorOk \in BOOLEAN : GetEnter(c, ctorOk)
  \/ \E c \in Callers, ok \in BOOLEAN : BuildReturn(c, ok)
  \/ \E c \in Callers, ctorOk \in BOOLEAN : Wake(c, ctorOk)

FairSpec == Init /\ [][HandleNext]_vars /\ Fairness

\* the manager's operations under any configuration
ConfigSpec == ConfigInit /\ [][Next]_vars

\* ---- vocabulary of the properties ----
\* callers whose initialize_graphiti() or get_graphiti() call has finished
HandleCallDone(c) == pc[c] = "done" /\ op[c] \in {"init", "get"}
HealthCallDone(c) == pc[c] = "done" /\ op[c] = "health"
Failed(i) == engine[i] \in {"ctor_fail", "build_fail"}
Failures == Cardinality({i \in DOMAIN engine : Failed(i)})
EngineNeverFailed == \A i \in DOMAIN engine : ~Failed(i)
EngineAlwaysFailed == \A i \in DOMAIN engine : Failed(i)
Ready == graphiti # None /\ engine[graphiti] = "ok"
Statuses == {"healthy", "unhealthy"}

\* C1: against an engine whose construction never fails, the Graphiti
\* constructor is invoked once in total and every finished initialize/get call
\* returned the one handle it built.
C1_SingleConstruction ==
  EngineNeverFailed =>
    /\ Len(engine) <= 1
    /\ \A c \in Callers : HandleCallDone(c) =>
         /\ Len(engine) = 1
         /\ ret[c] >= 1
         /\ \A d \in Callers : HandleCallDone(d) => ret[d] = ret[c]

C1_Witness ==
  \E c, d \in Callers :
    /\ c # d /\ HandleCallDone(c) /\ HandleCallDone(d)
    /\ sawNull[c] /\ sawNull[d]
    /\ ret[c] = ret[d] /\ ret[c] >= 1
    /\ engine = <<"ok">>

\* C2: every handle a finished initialize/get call returned is one whose
\* build_indices() has completed successfully.
C2_NoPartialHandle ==
  \A c \in Callers : (HandleCallDone(c) /\ ret[c] >= 1) => engine[ret[c]] = "ok"

\* C3: when every construction attempt of the engine has failed (in the
\* constructor or in build_indices), a finished initialize_graphiti() call has
\* raised after exactly MaxAttempts attempts and the stored handle is None.
C3_RetryExhaustion ==
  \A c \in Callers :
    (pc[c] = "done" /\ op[c] = "init" /\ EngineAlwaysFailed) =>
      /\ ret[c] = Error
      /\ attempt[c] = MaxAttempts
      /\ graphiti = None

\* C4: a single initialize_graphiti() call against an engine that has failed
\* k < MaxAttempts times finishes with a handle, and the engine has recorded
\* exactly k+1 construction attempts, the last one successful.
C4_RetryBound ==
  \A c \in Callers :
    (calls = 1 /\ pc[c] = "done" /\ op[c] = "init" /\ Failures < MaxAttempts) =>
      /\ ret[c] >= 1
      /\ Len(engine) = Failures + 1
      /\ engine[Len(engine)] = "ok"

\* C5: at most one caller at a time is inside a construction attempt sequence
\* (awaiting build_indices or in a backoff wait between attempts).
C5_SingleFlight ==
  Cardinality({c \in Callers : pc[c] \in {"build", "sleep"}}) <= 1

\* C6: once the stored handle is non-null, no step replaces it or resets it
\* to None.
C6_WriteOnce == [][graphiti # None => graphiti' = graphiti]_vars

C6_Witness ==
  /\ graphiti # None
  /\ engine[graphiti] = "build_fail"
  /\ \E c \in Callers : HealthCallDone(c) /\ probe[c].engine = "search_error"
  /\ \E c \in Callers : HandleCallDone(c) /\ ~sawNull[c] /\ ret[c] = graphiti

\* C7: once initialization has succeeded, no step makes a constructor or
\* build_indices call, and every initialize/get call that finishes returns the
\* installed handle.
C7_IdempotentReady ==
  [][Ready =>
       /\ engine' = engine
       /\ \A c \in Callers :
            (pc[c] # "done" /\ pc'[c] = "done" /\ op[c] \in {"init", "get"})
              => ret'[c] = graphiti]_vars

C7_Witness ==
  /\ Ready
  /\ calls >= 2
  /\ engine = <<"ok">>
  /\ \E c \in Callers :
       /\ HandleCallDone(c) /\ ~sawNull[c] /\ ret[c] = graphiti
       /\ \A d \in Callers \ {c} : pc[d] = "idle"

\* C8: in a finished health_check() both probes ran, the model entry depends
\* on the model probe only and the engine and database entries on the engine
\* probe only.
C8_HealthIsolation ==
  \A c \in Callers : HealthCallDone(c) =>
    /\ probe[c].model # "none" /\ probe[c].engine # "none"
    /\ health[c].gemini = "healthy" <=> probe[c].model = "response"
    /\ health[c].graphiti = "healthy" <=> probe[c].engine = "ok"
    /\ health[c].neo4j = "healthy" <=> probe[c].engine = "ok"
    /\ health[c].gemini = "unhealthy" <=> probe[c].model # "response"
    /\ health[c].graphiti = "unhealthy" <=> probe[c].engine # "ok"
    /\ health[c].neo4j = "unhealthy" <=> probe[c].engine # "ok"

C8_Witness ==
  \E c, d \in Callers :
    /\ HealthCallDone(c) /\ probe[c].model = "throw" /\ probe[c].engine = "ok"
    /\ health[c] = [graphiti |-> "healthy", neo4j |-> "healthy", gemini |-> "unhealthy"]
    /\ HealthCallDone(d) /\ probe[d].model = "response" /\ probe[d].engine = "search_error"
    /\ health[d] = [graphiti |-> "unhealthy", neo4j |-> "unhealthy", gemini |-> "healthy"]

\* C9: a finished health_check() has returned a report (it did not raise) with
\* exactly the three entries, each healthy or unhealthy.
C9_HealthNeverRaises ==
  \A c \in Callers : HealthCallDone(c) =>
    /\ ret[c] = Report
    /\ DOMAIN health[c] = {"graphiti", "neo4j", "gemini"}
    /\ \A k \in DOMAIN health[c] : health[c][k] \in Statuses

C9_Witness ==
  \E c, d \in Callers :
    /\ HealthCallDone(c) /\ ret[c] = Report
    /\ probe[c].model = "empty" /\ probe[c].engine = "init_error"
    /\ HealthCallDone(d) /\ ret[d] = Report
    /\ probe[d].model = "throw" /\ probe[d].engine = "search_error"

\* C10: in a finished health_check() the engine entry and the database entry
\* are equal, healthy exactly when the handle was obtained and the read query
\* succeeded and unhealthy otherwise.
C10_EngineDatabaseTogether ==
  \A c \in Callers : HealthCallDone(c) =>
    /\ health[c].graphiti = health[c].neo4j
    /\ health[c].graphiti = (IF probe[c].engine = "ok" THEN "healthy" ELSE "unhealthy")

C10_Witness ==
  \E c, d \in Callers :
    /\ HealthCallDone(c) /\ probe[c].engine = "ok"
    /\ health[c].graphiti = "healthy" /\ health[c].neo4j = "healthy"
    /\ HealthCallDone(d) /\ probe[d].engine = "init_error"
    /\ health[d].graphiti = "unhealthy" /\ health[d].neo4j = "unhealthy"

\* C11: after an initialize_graphiti()/get_graphiti() call has failed with its
\* retries exhausted and while the engine has never succeeded, the first step
\* of a later initialize/get call is attempt number 1 and invokes the
\* Graphiti constructor again.
C11_RetryFromScratch ==
  [][\A c \in Callers :
       (/\ pc[c] = "start" /\ pc'[c] # "start" /\ op[c] \in {"init", "get"}
        /\ EngineAlwaysFailed
        /\ \E d \in Callers : HandleCallDone(d) /\ ret[d] = Error)
       => /\ attempt'[c] = 1
          /\ Len(engine') = Len(engine) + 1]_vars

\* C12: the backoff waits of an initialize_graphiti() call are non-decreasing,
\* each at least WaitMin and at most WaitMax, and there is one wait per failed
\* attempt that was followed by another attempt.
C12_BackoffMonotone ==
  \A c \in Callers :
    /\ \A i \in DOMAIN waits[c] : WaitMin <= waits[c][i] /\ waits[c][i] <= WaitMax
    /\ \A i, j \in DOMAIN waits[c] : i <= j => waits[c][i] <= waits[c][j]
    /\ pc[c] = "sleep" => Len(waits[c]) = attempt[c]

C12_Witness ==
  \E c \in Callers : pc[c] = "done" /\ op[c] = "init" /\ ret[c] = Error /\ Len(waits[c]) = 2

\* C13: when the engine call of an episode or search request fails, the
\* endpoint finishes in that step with a server error, that call was the only
\* engine call made for the request, and the stored handle is unchanged.
C13_NoRequestRetry ==
  [][\A c \in Callers :
       (pc[c] = "request" /\ req[c].out = "none" /\ req'[c].out = "fail")
       => /\ pc'[c] = "done"
          /\ resp'[c] = ServerError
          /\ req'[c].sent = 1
          /\ graphiti' = graphiti]_vars

C13_Witness ==
  \E c, d \in Callers :
    /\ pc[c] = "done" /\ op[c] = "episode" /\ req[c].out = "fail"
    /\ req[c].sent = 1 /\ resp[c] = ServerError
    /\ pc[d] = "done" /\ op[d] = "search" /\ req[d].out = "fail"
    /\ req[d].sent = 1 /\ resp[d] = ServerError
    /\ graphiti # None

\* C14: the health endpoint answers with the report of health_check() and a
\* verdict that is healthy exactly when every entry of that report is healthy,
\* and unhealthy otherwise.
C14_AggregateVerdict ==
  \A c \in Callers : HealthCallDone(c) =>
    /\ resp[c].code = 200
    /\ resp[c].services = health[c]
    /\ resp[c].status \in Statuses
    /\ resp[c].status = "healthy" <=> \A k \in DOMAIN health[c] : health[c][k] = "healthy"

C14_Witness ==
  \E c, d \in Callers :
    /\ HealthCallDone(c) /\ resp[c].status = "healthy"
    /\ health[c] = [graphiti |-> "healthy", neo4j |-> "healthy", gemini |-> "healthy"]
    /\ HealthCallDone(d) /\ resp[d].status = "unhealthy"
    /\ health[d] = [graphiti |-> "unhealthy", neo4j |-> "unhealthy", gemini |-> "healthy"]

\* C15: a search request without a center node whose engine call returned n
\* results is answered with total_count n, a results list of length n and the
\* query of the request.
C15_SearchShape ==
  \A c \in Callers :
    (pc[c] = "done" /\ op[c] = "search" /\ ~req[c].center /\ req[c].out = "ok") =>
      /\ resp[c].code = 200
      /\ resp[c].total_count = Len(req[c].results)
      /\ Len(resp[c].results) = Len(req[c].results)
      /\ resp[c].query = req[c].text

\* C16: an episode request whose engine call succeeded is answered with
\* success true and the submitted name as episode_name.
C16_EpisodeResponse ==
  \A c \in Callers :
    (pc[c] = "done" /\ op[c] = "episode" /\ req[c].out = "ok") =>
      /\ resp[c].code = 200
      /\ resp[c].success = TRUE
      /\ resp[c].episode_name = req[c].text

C16_Witness ==
  \E c, d \in Callers :
    /\ pc[c] = "done" /\ op[c] = "episode" /\ req[c].out = "ok" /\ req[c].text = "a"
    /\ resp[c].code = 200 /\ resp[c].episode_name = "a"
    /\ pc[d] = "done" /\ op[d] = "episode" /\ req[d].out = "ok" /\ req[d].text = "b"
    /\ resp[d].code = 200 /\ resp[d].episode_name = "b"

\* C17: an initialize_graphiti() call that fails has made exactly as many
\* attempts as the configured retry count settings.max_retries.
C17_ConfiguredBudget ==
  \A c \in Callers :
    (pc[c] = "done" /\ op[c] = "init" /\ ret[c] = Error /\ EngineAlwaysFailed)
      => attempt[c] = settings.max_retries

\* C18: no initialize_graphiti()/get_graphiti() call makes more than
\* MaxAttempts attempts, and every such call that was made eventually finishes,
\* with a handle or with an error.
C18_Termination ==
  \A c \in Callers :
    /\ [](attempt[c] <= MaxAttempts)
    /\ (pc[c] \in {"start", "build", "sleep"} /\ op[c] \in {"init", "get"})
         ~> (pc[c] = "done" /\ (ret[c] >= 1 \/ ret[c] = Error))

C18_Witness ==
  \E c, d \in Callers :
    /\ HandleCallDone(c) /\ ret[c] = Error /\ attempt[c] = MaxAttempts
    /\ HandleCallDone(d) /\ ret[d] >= 1 /\ attempt[d] = MaxAttempts
====
